---- MODULE Spec2Model ----
(***************************************************************************)
(* Model of the tagged error / exception pipeline and the managed effect   *)
(* runtime boundary of adonis-effect-api-starter.                          *)
(*                                                                         *)
(*   - values: the JavaScript values that travel as errors                 *)
(*   - predicates: isTaggedInternalError / isTaggedException               *)
(*   - conversions: toKnownExceptionOrUndefined, toInternalUnknownError,   *)
(*     toInternalServerException, toException and the                      *)
(*     InternalServerException constructor                                 *)
(*   - runtime: managed(), runPromise(), handleRuntimeExitResult() and the *)
(*     scoped database transaction                                         *)
(*   - handler: HttpExceptionHandler.handle()                              *)
(*   - responses: the response context, makeSuccessResponse and            *)
(*     makeExceptionResponse                                               *)
(***************************************************************************)
EXTENDS Integers, Sequences, FiniteSets, TLC

VARIABLES
    \* --- conversion / predicate harness
    input,        \* the value a conversion or predicate is applied to
    op,           \* the operation applied last ("none" before the first)
    result,       \* the outcome of that operation
    \* --- one unit of work run through runPromise()
    pc,           \* position of the fiber / of the entry point
    cause,        \* the fiber's current exit (success value or cause)
    bodyExit,     \* how the body ended: the exit the scope is closed with
    aborted,      \* the AbortSignal has fired while the fiber was alive
    finalizers,   \* finalizers registered in the unit's scope (a stack)
    ranFinalizers,\* finalizers that have run, in the order they ran
    trx,          \* per transaction: what the database and the code did
    stages,       \* the stages of managed() that ran, in order
    telemetry,    \* records emitted to the telemetry logger
    logged,       \* records written by the secondary logger
    outcome,      \* what runPromise() returned or threw
    \* --- the global exception handler
    hpc,          \* position of handle()
    herror,       \* the error handle() was called with
    hrun,         \* what runPromise() gave inside handle()
    bodies,       \* JSON bodies written for the current call
    handled,      \* number of calls of handle() completed
    \* --- the response context and the envelopes made from it
    rctx,         \* the HTTP context of the request (or none) and its response context
    envelope,     \* the envelope made last
    rop,          \* the response operation applied last, with its arguments
    \* --- several units of work running at the same time
    upc,          \* per unit: idle, running or done
    provided,     \* per unit: the HTTP context given to runPromise (0: none)
    responses,    \* per HTTP context: the response context kept on ctx.response
    seen,         \* per unit: the response context as the unit read it last
    builtBy       \* the unit whose run made the runtime build its services (0: none yet)

convVars == <<input, op, result>>
rtVars == <<pc, cause, bodyExit, aborted, finalizers, ranFinalizers, trx, stages, telemetry, logged, outcome>>
hVars == <<hpc, herror, hrun, bodies, handled>>
respVars == <<rctx, envelope, rop>>
cuVars == <<upc, provided, responses, seen, builtBy>>
vars == <<convVars, rtVars, hVars, respVars, cuVars>>

(***************************************************************************)
(* Bounds of the model.                                                    *)
(***************************************************************************)
StackLimit == 3       \* nested constructor frames before the engine gives up
MaxTrx == 1           \* transactions one unit of work creates
MaxManualCalls == 1   \* commit()/rollback() calls the body makes per transaction
MaxFinalizers == 2    \* finalizers in one scope
MaxHandled == 3        \* calls of handle() followed
MaxSnapshots == 3      \* data objects one instance goes through
MaxUnits == 2          \* units of work running at the same time
MaxChain == 3          \* objects in one chain of causes

(***************************************************************************)
(* Program constants.                                                      *)
(***************************************************************************)
INTERNAL_SERVER_ERROR == 500
NOT_FOUND == 404
UNPROCESSABLE_ENTITY == 422
OK == 200
CREATED == 201


(***************************************************************************)
(* Values.  A JavaScript value is a record of what the code under study    *)
(* can observe of it.                                                      *)
(*   jsType      "object", "class", "string", "null" or "undefined"        *)
(*   marker      the kind marker found on the value's constructor (or on   *)
(*               the value itself when it is a class)                      *)
(*   isError     value instanceof Error                                    *)
(*   isFramework value instanceof Exception (the framework's base class)   *)
(*   tag         the instance's _tag field, staticTag the class's __tag__  *)
(*   protoName   the name found on the prototype                           *)
(*   dataOk      the stored data decodes against the declared schema       *)
(*   oid         object identity: 0 primitive, 1 the input, 2.. built here *)
(*   payload     what the instance stores as its data ("none": nothing)    *)
(*   carried     what an UnknownError was given as its data option         *)
(*   dataRef     identity of the stored data object (0: none)              *)
(***************************************************************************)
NoTag == [ns |-> "", name |-> ""]
MkTag(ns, name) == [ns |-> ns, name |-> name]

\* the data option of an UnknownError: the JSON of the wrapped error (its
\* code and its encoded data) and the __exception__ marker
NoCarried == [json |-> FALSE, code |-> "", payload |-> "none", exceptionCode |-> ""]

Value(cls, jsType, marker, isError, isFramework, tag, staticTag, status, code, dataOk, causeCls, oid) ==
    [cls |-> cls, jsType |-> jsType, marker |-> marker, isError |-> isError,
     isFramework |-> isFramework, tag |-> tag, staticTag |-> staticTag,
     protoName |-> tag, status |-> status, code |-> code, dataOk |-> dataOk,
     causeCls |-> causeCls, oid |-> oid,
     payload |-> IF marker # "none" /\ jsType = "object" THEN cls ELSE "none",
     carried |-> NoCarried,
     dataRef |-> IF marker # "none" /\ jsType = "object" THEN 1 ELSE 0]

Undefined == Value("undefined", "undefined", "none", FALSE, FALSE, NoTag, NoTag, 0, "", TRUE, "none", 0)
Null == Value("null", "null", "none", FALSE, FALSE, NoTag, NoTag, 0, "", TRUE, "none", 0)
StringVal == Value("string", "string", "none", FALSE, FALSE, NoTag, NoTag, 0, "", TRUE, "none", 0)
PlainObject == Value("Object", "object", "none", FALSE, FALSE, NoTag, NoTag, 0, "", TRUE, "none", 1)
\* an object that merely carries a _tag string with a kind's prefix
Lookalike(ns) ==
    [Value("Object", "object", "none", FALSE, FALSE, MkTag(ns, "resource_not_found"), NoTag, 0, "", TRUE, "none", 1)
        EXCEPT !.protoName = NoTag]
NativeError(cls) == Value(cls, "object", "none", TRUE, FALSE, NoTag, NoTag, 0, "", TRUE, "none", 1)
\* new Exception(message, { status, code }) of the framework
FrameworkException(status) ==
    Value("Exception", "object", "none", TRUE, TRUE, NoTag, NoTag, status, "E_HTTP_EXCEPTION", TRUE, "none", 1)
\* errors.E_ROUTE_NOT_FOUND; dataOk: its message has the form "Cannot METHOD:url"
RouteNotFoundError(ok) ==
    Value("E_ROUTE_NOT_FOUND", "object", "none", TRUE, TRUE, NoTag, NoTag, NOT_FOUND, "E_ROUTE_NOT_FOUND", ok, "none", 1)
\* the validation library's E_VALIDATION_ERROR; dataOk: its messages fit the issues schema
ValidationError(ok) ==
    Value("E_VALIDATION_ERROR", "object", "none", TRUE, FALSE, NoTag, NoTag, UNPROCESSABLE_ENTITY, "E_VALIDATION_ERROR", ok, "none", 1)

(***************************************************************************)
(* baseInternalError / TaggedInternalError: an instance of the class made  *)
(* for `name`.  The constructor stores the data unvalidated, so dataOk is  *)
(* whatever the caller passed.                                             *)
(***************************************************************************)
TaggedInternalErrorInstance(cls, name, code, dataOk, causeCls, oid) ==
    Value(cls, "object", "internal", TRUE, FALSE, MkTag("internal", name), NoTag, 0, code, dataOk, causeCls, oid)

\* the class itself, as a value
TaggedInternalErrorClass(cls, name) ==
    Value(cls, "class", "internal", FALSE, FALSE, NoTag, MkTag("internal", name), 0, "", TRUE, "none", 1)

(***************************************************************************)
(* baseException / TaggedException: status is options.status when given    *)
(* (optStatus # 0) and the class default otherwise.                        *)
(***************************************************************************)
TaggedExceptionInstance(cls, name, defaultStatus, code, optStatus, dataOk, causeCls, oid) ==
    Value(cls, "object", "exception", TRUE, FALSE, MkTag("exception", name), NoTag,
          IF optStatus # 0 THEN optStatus ELSE defaultStatus, code, dataOk, causeCls, oid)

TaggedExceptionClass(cls, name) ==
    Value(cls, "class", "exception", FALSE, FALSE, NoTag, MkTag("exception", name), 0, "", TRUE, "none", 1)

ResourceNotFoundException(dataOk) ==
    TaggedExceptionInstance("ResourceNotFoundException", "resource_not_found", NOT_FOUND,
                            "E_RESOURCE_NOT_FOUND", 0, dataOk, "none", 1)
SchemaParseError(dataOk) ==
    TaggedInternalErrorInstance("SchemaParseError", "schema_parse", "I_SCHEMA_PARSE_ERROR", dataOk, "none", 1)
DatabaseTransactionError ==
    TaggedInternalErrorInstance("DatabaseTransactionError", "database_transaction", "I_DB_TRANSACTION_ERROR", TRUE, "UnknownError", 1)
RangeError == NativeError("RangeError")
\* ParseResult.ParseError of the schema library
ParseError == NativeError("ParseError")

\* the values the harness and the unit of work draw errors from
ErrorInputs ==
    {ResourceNotFoundException(TRUE), ResourceNotFoundException(FALSE),
     SchemaParseError(TRUE), SchemaParseError(FALSE),
     FrameworkException(NOT_FOUND), RouteNotFoundError(TRUE), RouteNotFoundError(FALSE),
     ValidationError(TRUE), NativeError("TypeError"), NativeError("Error"),
     StringVal, PlainObject, Lookalike("exception"), Lookalike("internal"), Null, Undefined}

ClassInputs ==
    {TaggedExceptionClass("ResourceNotFoundException", "resource_not_found"),
     TaggedInternalErrorClass("SchemaParseError", "schema_parse")}

\* tagged errors constructed with a cause
CausedInputs ==
    {DatabaseTransactionError,
     TaggedExceptionInstance("ResourceNotFoundException", "resource_not_found", NOT_FOUND,
                             "E_RESOURCE_NOT_FOUND", 0, TRUE, "TypeError", 1)}

\* a tagged error constructed with a message only: it stores no data
BareInputs ==
    {[ResourceNotFoundException(TRUE) EXCEPT !.payload = "none", !.dataRef = 0]}

Inputs == ErrorInputs \cup ClassInputs \cup CausedInputs \cup BareInputs

\* outcome of a call: a returned value or a thrown one
Return(v) == [kind |-> "return", val |-> v]
Throw(v) == [kind |-> "throw", val |-> v]
NoOutcome == [kind |-> "none", val |-> Undefined]

(***************************************************************************)
(* Type narrowing predicates.  A filter is absent, a tag string or a class.*)
(***************************************************************************)
NoFilter == [kind |-> "none", tag |-> NoTag, cls |-> ""]
TagFilter(ns, name) == [kind |-> "tag", tag |-> MkTag(ns, name), cls |-> ""]
ClassFilter(cls) == [kind |-> "class", tag |-> NoTag, cls |-> cls]

Filters ==
    {NoFilter, TagFilter("", "resource_not_found"), TagFilter("exception", "resource_not_found"),
     TagFilter("internal", "schema_parse"), TagFilter("", "schema_parse"),
     ClassFilter("ResourceNotFoundException"), ClassFilter("SchemaParseError")}

\* is.object(value): an object or a function, not null;  is.class(value)
IsObject(v) == v.jsType \in {"object", "class"}
IsClass(v) == v.jsType = "class"

\* the tag a string filter stands for: the kind's prefix is added unless the
\* string already starts with it
NormalizeTag(t, ns) ==
    IF t.ns = ns THEN t
    ELSE IF t.ns = "" THEN MkTag(ns, t.name)
    ELSE MkTag(ns, t.ns \o "/" \o t.name)

isTaggedInternalError(filter, v) ==
    IF ~IsObject(v) /\ ~IsClass(v) THEN FALSE
    ELSE IF v.marker # "internal" THEN FALSE
    ELSE IF filter.kind = "none" THEN TRUE
    ELSE IF filter.kind = "tag"
         THEN LET tag == NormalizeTag(filter.tag, "internal")
              IN IF IsClass(v) THEN v.staticTag = tag
                 ELSE /\ v.tag # NoTag
                      /\ v.tag.ns = "internal"
                      /\ v.protoName = tag
    ELSE ~IsClass(v) /\ v.cls = filter.cls

\* isTaggedException with the marker check left out: the tag alone decides
isTaggedExceptionByTagOnly(filter, v) ==
    IF ~IsObject(v) /\ ~IsClass(v) THEN FALSE
    ELSE IF filter.kind = "class" THEN ~IsClass(v) /\ v.cls = filter.cls
    ELSE IF IsClass(v) THEN v.staticTag.ns = "exception"
    ELSE v.tag.ns = "exception"

isTaggedException(filter, v) ==
    IF ~IsObject(v) /\ ~IsClass(v) THEN FALSE
    ELSE IF v.marker # "exception" THEN FALSE
    ELSE IF filter.kind = "none" THEN TRUE
    ELSE IF filter.kind = "tag"
         THEN LET tag == NormalizeTag(filter.tag, "exception")
              IN IF IsClass(v) THEN v.staticTag = tag
                 ELSE /\ v.tag # NoTag
                      /\ v.tag.ns = "exception"
                      /\ v.protoName = tag
    ELSE ~IsClass(v) /\ v.cls = filter.cls


(***************************************************************************)
(* Error conversion pipeline.                                              *)
(***************************************************************************)
\* lodash.defaultTo / is.nullOrUndefined: the value counts as missing
IsNullish(v) == v.jsType \in {"null", "undefined"}

RouteNotFoundException_fromException(exception) ==
    TaggedExceptionInstance("RouteNotFoundException", "route_not_found", NOT_FOUND,
                            "E_ROUTE_NOT_FOUND", 0, exception.dataOk, exception.cls, 2)

ValidationException_fromException(exception) ==
    TaggedExceptionInstance("ValidationException", "validation", UNPROCESSABLE_ENTITY,
                            "E_VALIDATION_ERROR", 0, exception.dataOk, exception.cls, 2)

toKnownExceptionOrUndefined(error) ==
    IF isTaggedException(NoFilter, error) THEN error
    ELSE IF error.cls = "E_ROUTE_NOT_FOUND" THEN RouteNotFoundException_fromException(error)
    ELSE IF error.cls = "E_VALIDATION_ERROR" THEN ValidationException_fromException(error)
    ELSE Undefined

\* the class of the cause picked for `error` ("none": undefined)
causeOfUnknownError(error) ==
    IF isTaggedInternalError(NoFilter, error) \/ isTaggedException(NoFilter, error)
    THEN IF error.causeCls # "none" THEN error.causeCls ELSE error.cls
    ELSE IF error.isFramework \/ error.isError
    THEN IF error.causeCls # "none" THEN error.causeCls ELSE error.cls
    ELSE "none"

\* new UnknownError(message, { cause, data, code }): the data option is taken
\* out of the options before super() is called, so the instance stores no
\* data of its own (the class declares no schema); data() decodes the option
UnknownError(code, causeCls, data) ==
    [TaggedInternalErrorInstance("UnknownError", "unknown",
                                 IF code = "" THEN "I_UNKNOWN_ERROR" ELSE code, TRUE, causeCls, 2)
        EXCEPT !.payload = "none", !.dataRef = 0, !.carried = data]

\* The `resource` field of the data of ResourceNotFoundException, as text.
\* Other contents stand for data whose schema transforms nothing.
ResourceNames == {"UserProfile", "USER_PROFILE", "user_profile", "user profile"}
\* stringHelpers.snakeCase
snakeCase(s) == IF s \in ResourceNames THEN "user_profile" ELSE s
toUpperCase(s) ==
    CASE s = "user_profile" -> "USER_PROFILE"
      [] s = "user profile" -> "USER PROFILE"
      [] s = "UserProfile" -> "USERPROFILE"
      [] OTHER -> s
toLowerCase(s) ==
    CASE s = "USER_PROFILE" -> "user_profile"
      [] s = "USER PROFILE" -> "user profile"
      [] s \in {"UserProfile", "USERPROFILE"} -> "userprofile"
      [] OTHER -> s

\* Schema.decode(schema): SnakeCase (snake case, then upper case), then
\* Schema.Lowercase
decode(content) == toLowerCase(toUpperCase(snakeCase(content)))

\* Schema.encode(schema): the value has to be lower case; Schema.Lowercase
\* encodes it as it is, SnakeCase encodes as it decodes
isLowercased(value) == value = toLowerCase(value)
encode(value) == toUpperCase(snakeCase(value))

\* err.toJSON() of a tagged error: tag, kind, code, message, cause and, when
\* the class has a schema and the instance stores data, the encoded data
toJSON(err) ==
    [json |-> TRUE, code |-> err.code, exceptionCode |-> "",
     payload |-> IF err.payload = "none" THEN "none" ELSE encode(decode(err.payload))]

\* toJSON() runs data() with Effect.runSync: stored data that does not
\* decode makes it throw
toJSONThrows(err) == err.payload # "none" /\ ~err.dataOk

toInternalUnknownError(error) ==
    IF (isTaggedInternalError(NoFilter, error) \/ isTaggedException(NoFilter, error)) /\ ~IsClass(error)
    THEN UnknownError(IF error.marker = "internal" THEN error.code ELSE "I_UNKNOWN_ERROR",
                      causeOfUnknownError(error),
                      [toJSON(error) EXCEPT
                          !.exceptionCode = IF error.marker = "exception" THEN error.code ELSE ""])
    ELSE IF error.isFramework
    THEN UnknownError("", causeOfUnknownError(error), [NoCarried EXCEPT !.exceptionCode = error.code])
    ELSE UnknownError("", IF causeOfUnknownError(error) # "none"
                          THEN causeOfUnknownError(error) ELSE "Error", NoCarried)

\* the call toInternalUnknownError()(error) with what it throws: toJSON is
\* not a function on a class, and toJSON() throws on undecodable data
toInternalUnknownError_call(error) ==
    IF isTaggedInternalError(NoFilter, error) \/ isTaggedException(NoFilter, error)
    THEN IF IsClass(error) THEN Throw(NativeError("TypeError"))
         ELSE IF toJSONThrows(error) THEN Throw(ParseError)
         ELSE Return(toInternalUnknownError(error))
    ELSE Return(toInternalUnknownError(error))

\* makeInternalUnknownErrorFromTaggedError(options)(error): the data option
\* holds the __exception__ marker only
makeInternalUnknownErrorFromTaggedError(error) ==
    UnknownError(IF error.marker = "internal" THEN error.code ELSE "I_UNKNOWN_ERROR",
                 causeOfUnknownError(error),
                 [NoCarried EXCEPT
                     !.exceptionCode = IF error.marker = "exception" THEN error.code ELSE ""])

(***************************************************************************)
(* InternalServerException.  The constructor builds its result through     *)
(* the static make(), and make() is `new this(data, message, options)`:    *)
(* with `this` the InternalServerException class it runs the constructor   *)
(* again, now with the data object as the error.  A frame is one           *)
(* constructor activation; past StackLimit frames the engine throws a      *)
(* RangeError (call stack size exceeded).                                  *)
(***************************************************************************)
\* the data object { error: code } that make() hands to the constructor
DataObject == [PlainObject EXCEPT !.oid = 0]

RECURSIVE NewInternalServerException(_, _, _)
RECURSIVE InternalServerException_make(_, _, _)

\* TaggedException.make(options) called on InternalServerException
\* (options.data is always an object here)
InternalServerException_make(optStatus, causeCls, depth) ==
    NewInternalServerException(DataObject, optStatus, depth + 1)

\* the exception make() returned, with the data and the cause it was made
\* with; a throw inside make() goes on to the caller
Made(made, dataOk, causeCls) ==
    IF made.kind = "throw" THEN made
    ELSE Return([made.val EXCEPT !.dataOk = dataOk, !.causeCls = causeCls])

\* cause: defaultTo(inferCauseFromUnknownError(error), error)
InferredCause(error) ==
    IF causeOfUnknownError(error) # "none" THEN causeOfUnknownError(error) ELSE error.cls

makeInternalServerExceptionFromInternalError(error, optStatus, depth) ==
    Made(InternalServerException_make(optStatus, InferredCause(error), depth),
         error.dataOk, InferredCause(error))

\* defu(options, { ..., status: error.status }): the option wins, else the
\* error's own status
makeInternalServerExceptionFromException(error, optStatus, depth) ==
    Made(InternalServerException_make(IF optStatus # 0 THEN optStatus ELSE error.status,
                                      InferredCause(error), depth),
         TRUE, InferredCause(error))

makeInternalServerExceptionFromError(error, optStatus, depth) ==
    Made(InternalServerException_make(optStatus, error.cls, depth), TRUE, error.cls)

\* Object.assign(this, exception): the fields of the made exception, on the
\* object under construction
ObjectAssign(self, exception) ==
    IF exception.kind = "throw" THEN exception
    ELSE Return([exception.val EXCEPT !.oid = self.oid])

NewInternalServerException(error, optStatus, depth) ==
    IF depth >= StackLimit THEN Throw(RangeError)
    ELSE
    ObjectAssign(
        \* super({ error: null }, message, options)
        TaggedExceptionInstance("InternalServerException", "internal_server",
                                INTERNAL_SERVER_ERROR, "E_INTERNAL_SERVER_ERROR",
                                optStatus, TRUE, "none", 2 + depth),
        IF isTaggedInternalError(NoFilter, error)
        THEN makeInternalServerExceptionFromInternalError(error, optStatus, depth)
        ELSE IF error.isFramework
        THEN makeInternalServerExceptionFromException(error, optStatus, depth)
        ELSE IF error.isError
        THEN makeInternalServerExceptionFromError(error, optStatus, depth)
        ELSE InternalServerException_make(optStatus, "none", depth))

\* InternalServerException.fromUnknownError(message, options)(error)
InternalServerException_fromUnknownError(optStatus, error) ==
    NewInternalServerException(error, optStatus, 0)

toInternalServerException(optStatus, error) ==
    IF \/ isTaggedInternalError(NoFilter, error)
       \/ error.isFramework
       \/ error.isError
    THEN InternalServerException_fromUnknownError(optStatus, error)
    ELSE InternalServerException_fromUnknownError(optStatus, toInternalUnknownError(error))

\* lodash.defaultTo(exception, toInternalServerException(...)(error)): both
\* arguments are evaluated before defaultTo chooses
defaultTo(value, defaultValue) ==
    IF defaultValue.kind = "throw" THEN defaultValue
    ELSE IF IsNullish(value) THEN defaultValue
    ELSE Return(value)

toException(optStatus, error) ==
    defaultTo(toKnownExceptionOrUndefined(error), toInternalServerException(optStatus, error))


(***************************************************************************)
(* Exits and causes of the effect runtime.  A cause is told by what it     *)
(* holds: a typed failure, a defect, an interruption, or several of them   *)
(* (a Sequential / Parallel cause).                                        *)
(***************************************************************************)
Success(v) == [succ |-> TRUE, value |-> v, hasFailure |-> FALSE, failure |-> Undefined,
               hasDefect |-> FALSE, defect |-> Undefined, interrupt |-> FALSE]
Fail(e) == [succ |-> FALSE, value |-> Undefined, hasFailure |-> TRUE, failure |-> e,
            hasDefect |-> FALSE, defect |-> Undefined, interrupt |-> FALSE]
Die(d) == [succ |-> FALSE, value |-> Undefined, hasFailure |-> FALSE, failure |-> Undefined,
           hasDefect |-> TRUE, defect |-> d, interrupt |-> FALSE]
Interrupt == [succ |-> FALSE, value |-> Undefined, hasFailure |-> FALSE, failure |-> Undefined,
              hasDefect |-> FALSE, defect |-> Undefined, interrupt |-> TRUE]
NoExit == [Success(Undefined) EXCEPT !.succ = FALSE]

\* Cause.sequential(c1, c2), c1 a failure cause
Sequential(c1, c2) ==
    [succ |-> FALSE, value |-> Undefined,
     hasFailure |-> c1.hasFailure \/ c2.hasFailure,
     failure |-> IF c1.hasFailure THEN c1.failure ELSE c2.failure,
     hasDefect |-> c1.hasDefect \/ c2.hasDefect,
     defect |-> IF c1.hasDefect THEN c1.defect ELSE c2.defect,
     interrupt |-> c1.interrupt \/ c2.interrupt]

\* Cause.stripFailures
StripFailures(c) == [c EXCEPT !.hasFailure = FALSE, !.failure = Undefined]

\* Exit.isSuccess, and Exit.isFailure with Cause.isFailType / Cause.isDieType
isSuccess(c) == c.succ
isFailType(c) == ~c.succ /\ c.hasFailure /\ ~c.hasDefect /\ ~c.interrupt
isDieType(c) == ~c.succ /\ c.hasDefect /\ ~c.hasFailure /\ ~c.interrupt

\* what an interrupted fiber makes of its exit: the success value or the typed
\* failure is dropped and the interruption is part of the cause
Interrupted(c) == IF c.succ THEN Interrupt ELSE StripFailures(Sequential(c, Interrupt))

ExitKind(c) ==
    IF c.succ THEN "success"
    ELSE IF c.interrupt THEN "interrupt"
    ELSE IF c.hasDefect THEN "defect"
    ELSE "failure"

\* Option.none() / Option.some(decoded)
OptionNone == [Undefined EXCEPT !.cls = "None"]
OptionSome(content) == [StringVal EXCEPT !.cls = "Some", !.payload = content]

\* err.data(): none without schema or stored data, else Schema.decode of
\* the stored data; the override of UnknownError decodes its data option
\* and passes the decode through toSchemaParseError
data(err) ==
    IF err.cls = "UnknownError"
    THEN IF err.carried = NoCarried THEN Success(OptionNone)
         ELSE Success(OptionSome("UnknownError"))
    ELSE IF err.payload = "none" THEN Success(OptionNone)
    ELSE IF err.dataOk THEN Success(OptionSome(decode(err.payload)))
    ELSE Fail(ParseError)

\* The stored data is an object with an identity (ref) and a content.
SnapshotOf(err) == [ref |-> err.dataRef, content |-> err.payload]

\* what the updater does to the draft it is given
Updaters == {"not a function", "noop", "set A", "set B"}
Patched(content, updater) ==
    IF updater = "set A" THEN "A"
    ELSE IF updater = "set B" THEN "B"
    ELSE content

\* a create that writes through to the object it was given
createInPlace(snapshot, updater) ==
    [base |-> [snapshot EXCEPT !.content = Patched(snapshot.content, updater)],
     next |-> [snapshot EXCEPT !.content = Patched(snapshot.content, updater)]]

\* create(base, updater) of the copy-on-write library: `next` is the object
\* it returns, `base` is the object it was given as it is afterwards.  A
\* draft left as it was gives the base object back.
create(snapshot, updater) ==
    [base |-> snapshot,
     next |-> IF Patched(snapshot.content, updater) = snapshot.content THEN snapshot
              ELSE [ref |-> snapshot.ref + 1,
                    content |-> Patched(snapshot.content, updater)]]

\* Object.assign(this, created.next): the patched fields land on the
\* instance itself, its _tag among them
StoreOnInstance(self, created) ==
    [self |-> [self EXCEPT !.tag = MkTag("", created.next.content)],
     held |-> created.base]

\* this[_internals].data = created.next
StoreData(self, created) ==
    [self |-> [self EXCEPT !.payload = created.next.content, !.dataRef = created.next.ref],
     held |-> created.base]

\* err.update(updater): nothing without schema, stored data or a function
update(self, updater) ==
    IF self.payload = "none" \/ updater = "not a function"
    THEN [self |-> self, held |-> SnapshotOf(self)]
    ELSE StoreData(self, create(SnapshotOf(self), updater))

(***************************************************************************)
(* The scoped database transaction (createDatabaseTransaction).            *)
(*   db          what the database holds: none, pending (db.transaction()  *)
(*               in flight), open, committed, rolledback, failed           *)
(*   handle      the unit got { trx, commit, rollback } back               *)
(*   finCommit / finRollback    calls made by the scope's finalizer        *)
(*   bodyCommit / bodyRollback  calls made by the body                     *)
(***************************************************************************)
NoTrx == [db |-> "none", handle |-> FALSE, finCommit |-> 0, finRollback |-> 0,
          bodyCommit |-> 0, bodyRollback |-> 0]

\* trx.commit() / trx.rollback() reaching the database
DbCommit(r) == IF r.db = "open" THEN "committed" ELSE r.db
DbRollback(r) == IF r.db = "open" THEN "rolledback" ELSE r.db

\* the finalizer added at creation: Exit.matchEffect on the scope's exit
TrxFinalizer(r, exit) ==
    IF isSuccess(exit)
    THEN [r EXCEPT !.finCommit = @ + 1, !.db = DbCommit(r)]
    ELSE [r EXCEPT !.finRollback = @ + 1, !.db = DbRollback(r)]

(***************************************************************************)
(* managed(): Effect.scoped, tapErrorCause, catchIf, catchAllDefect.       *)
(***************************************************************************)
\* the error the tap logs: the defect of a Die cause, the error of a Fail
\* cause, and the missing `error` property of any other cause
TapError(c) ==
    IF isDieType(c) THEN c.defect
    ELSE IF isFailType(c) THEN c.failure
    ELSE Undefined

\* the record is emitted once the effect before it has succeeded
EmitAfter(prepared) ==
    IF isSuccess(prepared) THEN [emitted |-> 1, exit |-> Success(Undefined)]
    ELSE [emitted |-> 0, exit |-> prepared]

\* logTaggedErrorToTelemetry(logger)(error): `yield* error.data()`, then
\* logger.emit; on a class value error.data is not a function
logTaggedErrorToTelemetry(error) ==
    IF IsClass(error) THEN [emitted |-> 0, exit |-> Die(NativeError("TypeError"))]
    ELSE EmitAfter(data(error))

\* logErrorToTelemetry(log, scope)(error): the records emitted and how the
\* effect ends; `log` is the set of categories asked for
logErrorToTelemetry(log, error) ==
    IF \/ isTaggedInternalError(NoFilter, error) /\ ("internal_error" \in log \/ "all" \in log)
       \/ isTaggedException(NoFilter, error) /\ ("known_exception" \in log \/ "all" \in log)
    THEN logTaggedErrorToTelemetry(error)
    ELSE IF error.isFramework /\ ("adonis_exception" \in log \/ "all" \in log)
    THEN EmitAfter(Success(Undefined))
    ELSE IF /\ "unknown" \in log \/ "all" \in log
            /\ ~isTaggedInternalError(NoFilter, error)
            /\ ~isTaggedException(NoFilter, error)
            /\ ~error.isFramework
    THEN EmitAfter(Success(Undefined))
    ELSE [emitted |-> 0, exit |-> Success(Undefined)]

\* logger.error(err.toJSON(), ...) on what toException()(error) gave
LoggedException(err) ==
    IF err.kind = "throw" THEN [written |-> 0, exit |-> Die(err.val)]
    ELSE [written |-> 1, exit |-> Success(Undefined)]

\* the secondary logger of the tap: logger.error(err.toJSON(), ...) on the
\* error itself when tagged, on toException()(error) otherwise
TapLoggerStep(error) ==
    IF isTaggedInternalError(NoFilter, error) \/ isTaggedException(NoFilter, error)
    THEN IF error.dataOk THEN [written |-> 1, exit |-> Success(Undefined)]
         ELSE [written |-> 0, exit |-> Die(ParseError)]
    ELSE LoggedException(toException(0, error))

\* Effect.fail(toException()(error)); a throw while the argument is
\* evaluated is a defect of the fiber
FailWith(e) == IF e.kind = "throw" THEN Die(e.val) ELSE Fail(e.val)

\* Effect.catchIf(error => !isTaggedException()(error), error => Effect.fail(toException()(error)))
CatchIf(c) ==
    IF c.hasFailure /\ ~isTaggedException(NoFilter, c.failure)
    THEN FailWith(toException(0, c.failure))
    ELSE c

\* Effect.catchAllDefect(defect => Effect.fail(toException()(defect)))
CatchAllDefect(c) ==
    IF c.hasDefect
    THEN FailWith(toException(0, c.defect))
    ELSE c

UnexpectedRuntimeExitResultError ==
    TaggedInternalErrorInstance("UnexpectedRuntimeExitResultError", "unexpected_runtime_exit_result",
                                "I_UNEXPECTED_RUNTIME_EXIT_RESULT_ERROR", TRUE, "none", 1)

handleRuntimeExitResult(exit) ==
    IF isFailType(exit) THEN Throw(exit.failure)
    ELSE IF isDieType(exit) THEN Throw(toInternalServerException(0, exit.defect).val)
    ELSE IF isSuccess(exit) THEN Return(exit.value)
    ELSE Throw(NewInternalServerException(UnexpectedRuntimeExitResultError, 0, 0).val)

\* where the fiber goes when the body has ended, with the scope left open on
\* interruption
AfterBodyUnscoped(c) == IF c.interrupt THEN "tap" ELSE "scope_close"

\* Effect.scoped is the first stage of managed(): the scope is closed on
\* every exit of the body
AfterBody(c) == "scope_close"

RtIdle ==
    /\ pc = "idle"
    /\ cause = NoExit
    /\ bodyExit = "none"
    /\ aborted = FALSE
    /\ finalizers = <<>>
    /\ ranFinalizers = <<>>
    /\ trx = [t \in 1..MaxTrx |-> NoTrx]
    /\ stages = <<>>
    /\ telemetry = 0
    /\ logged = 0
    /\ outcome = NoOutcome

(***************************************************************************)
(* Conversion harness: a value is drawn and the conversions and predicates *)
(* are applied to it.                                                      *)
(***************************************************************************)
OptStatuses == {0, 503}     \* options.status: absent (0) or given

NoSnapshot == [ref |-> 0, content |-> "none"]
NoResult == [kind |-> "none", val |-> Undefined, internal |-> FALSE, exception |-> FALSE,
             filter |-> NoFilter, optStatus |-> 0, emitted |-> 0,
             before |-> Undefined, held |-> NoSnapshot, updater |-> "none"]
CallResult(o, optStatus) ==
    [NoResult EXCEPT !.kind = o.kind, !.val = o.val, !.optStatus = optStatus]

(***************************************************************************)
(* Response metadata is a record over the keys below; "none" stands for a  *)
(* key that is absent.  rctx is the HTTP context of the current request:   *)
(* whether there is one, what ctx.request.id() gives ("none": undefined),  *)
(* and the metadata and data mode of ctx.response.context().               *)
(***************************************************************************)
MetadataKeys == {"request_id", "timestamp", "data_mode", "cache", "pagination"}
DefaultKeys == {"request_id", "timestamp"}
EmptyMetadata == [k \in MetadataKeys |-> "none"]
Meta(k, v) == [EmptyMetadata EXCEPT ![k] = v]

NoContext == [present |-> FALSE, requestId |-> "none", metadata |-> EmptyMetadata,
              dataMode |-> "unset"]
RequestIds == {"none", "x-request-id"}
NewContext(requestId) == [NoContext EXCEPT !.present = TRUE, !.requestId = requestId]

NoEnvelope == [type |-> "none", status |-> 0, metadata |-> EmptyMetadata]
NoOptions == [dataMode |-> "unset", metadata |-> EmptyMetadata]
NoRop == [name |-> "none", data |-> "undefined", options |-> NoOptions,
          supplied |-> EmptyMetadata, before |-> EmptyMetadata, exit |-> "none",
          httpStatus |-> 0, failure |-> "none"]

RespIdle ==
    /\ rctx = NoContext
    /\ envelope = NoEnvelope
    /\ rop = NoRop

\* Concurrent units: unit u is the work of request u, whose HTTP context is
\* context u.  A response context has the fields below, each unset (0) or
\* holding the mark of the unit that wrote it.
Units == 1..MaxUnits
ResponseFields == {"message", "dataMode"}
UnsetResponseContext == [f \in ResponseFields |-> 0]

UnitsIdle ==
    /\ upc = [u \in Units |-> "idle"]
    /\ provided = [u \in Units |-> 0]
    /\ responses = [c \in Units |-> UnsetResponseContext]
    /\ seen = [u \in Units |-> UnsetResponseContext]
    /\ builtBy = 0

HIdle ==
    /\ hpc = "idle"
    /\ herror = Undefined
    /\ hrun = NoOutcome
    /\ bodies = <<>>
    /\ handled = 0

ConvInit ==
    /\ input \in Inputs
    /\ op = "none"
    /\ result = NoResult
    /\ RtIdle
    /\ HIdle
    /\ RespIdle
    /\ UnitsIdle

ApplyToException(optStatus) ==
    /\ op' = "toException"
    /\ result' = CallResult(toException(optStatus, input), optStatus)
    /\ UNCHANGED <<cuVars, respVars, input, rtVars, hVars>>

ApplyToInternalServerException(optStatus) ==
    /\ op' = "toInternalServerException"
    /\ result' = CallResult(toInternalServerException(optStatus, input), optStatus)
    /\ UNCHANGED <<cuVars, respVars, input, rtVars, hVars>>

ApplyToKnownExceptionOrUndefined ==
    /\ op' = "toKnownExceptionOrUndefined"
    /\ result' = CallResult(Return(toKnownExceptionOrUndefined(input)), 0)
    /\ UNCHANGED <<cuVars, respVars, input, rtVars, hVars>>

ApplyToInternalUnknownError ==
    /\ op' = "toInternalUnknownError"
    /\ result' = CallResult(toInternalUnknownError_call(input), 0)
    /\ UNCHANGED <<cuVars, respVars, input, rtVars, hVars>>

\* toInternalUnknownError()(toInternalUnknownError()(input))
ReapplyToInternalUnknownError ==
    /\ op = "toInternalUnknownError"
    /\ result.kind = "return"
    /\ op' = "toInternalUnknownError twice"
    /\ result' = CallResult(toInternalUnknownError_call(result.val), 0)
    /\ UNCHANGED <<cuVars, respVars, input, rtVars, hVars>>

IsInstance(v) == v.jsType = "object" /\ v.marker # "none"

\* new cls(arg): the factory constructor stores its data unvalidated and
\* returns; the constructor of InternalServerException goes through make()
NewClasses == {"ResourceNotFoundException", "InternalServerException"}
New(cls, arg, dataOk) ==
    IF cls = "InternalServerException" THEN NewInternalServerException(arg, 0, 0)
    ELSE Return(ResourceNotFoundException(dataOk))

\* try { new cls(...) } catch
ApplyNew(cls, dataOk) ==
    /\ op' = "new"
    /\ \E r \in {New(cls, input, dataOk)} : result' = CallResult(r, 0)
    /\ UNCHANGED <<cuVars, respVars, input, rtVars, hVars>>

\* const held = <the stored data>; input.update(updater): the instance is
\* changed in place, `held` is what the reference taken before shows
ApplyUpdate(updater) ==
    /\ IsInstance(input)
    /\ input.dataRef < MaxSnapshots
    /\ op' = "update"
    /\ \E r \in {update(input, updater)} :
         /\ input' = r.self
         /\ result' = [NoResult EXCEPT !.kind = "return", !.before = input,
                                       !.held = r.held, !.updater = updater]
    /\ UNCHANGED <<cuVars, respVars, rtVars, hVars>>

\* const e = new ResourceNotFoundException({ resource }); e.data() and
\* e.toJSON().data
ApplyToJSON(resource) ==
    /\ op' = "toJSON"
    /\ \E e \in {[ResourceNotFoundException(TRUE) EXCEPT !.payload = resource]} :
         result' = [NoResult EXCEPT !.kind = "return", !.before = e,
                                    !.val = data(e).value,
                                    !.held = [ref |-> 0, content |-> toJSON(e).payload]]
    /\ UNCHANGED <<cuVars, respVars, input, rtVars, hVars>>

\* Schema.decode(schema)(Schema.encode(schema)(value)) of a valid value
ApplyDecodeEncode(value) ==
    /\ isLowercased(value)
    /\ op' = "decode(encode)"
    /\ result' = [NoResult EXCEPT !.kind = "return", !.before = OptionSome(value),
                                  !.val = OptionSome(decode(encode(value)))]
    /\ UNCHANGED <<cuVars, respVars, input, rtVars, hVars>>

\* what an effect ended with, as a result of the harness
ExitResult(exit) ==
    [NoResult EXCEPT !.kind = ExitKind(exit),
                     !.val = IF isSuccess(exit) THEN exit.value
                             ELSE IF exit.hasFailure THEN exit.failure ELSE exit.defect]

\* Effect.runPromiseExit(input.data())
ApplyData ==
    /\ IsInstance(input)
    /\ op' = "data"
    /\ result' = ExitResult(data(input))
    /\ UNCHANGED <<cuVars, respVars, input, rtVars, hVars>>

LogSets == {{"all"}, {"internal_error"}, {"known_exception"}, {"adonis_exception"},
            {"unknown"}, {"internal_error", "known_exception"}, {}}

\* Effect.runPromiseExit(logErrorToTelemetry(log, scope)(input))
ApplyLogErrorToTelemetry(log) ==
    /\ op' = "logErrorToTelemetry"
    /\ \E r \in {logErrorToTelemetry(log, input)} :
         result' = [ExitResult(r.exit) EXCEPT !.emitted = r.emitted]
    /\ UNCHANGED <<cuVars, respVars, input, rtVars, hVars>>

ApplyMakeInternalUnknownErrorFromTaggedError ==
    /\ isTaggedInternalError(NoFilter, input) \/ isTaggedException(NoFilter, input)
    /\ ~IsClass(input)
    /\ op' = "makeInternalUnknownErrorFromTaggedError"
    /\ result' = CallResult(Return(makeInternalUnknownErrorFromTaggedError(input)), 0)
    /\ UNCHANGED <<cuVars, respVars, input, rtVars, hVars>>

\* both predicates applied to the same value with the same filter
Narrow(filter) ==
    /\ op' = "narrow"
    /\ result' = [NoResult EXCEPT !.kind = "bool",
                                  !.internal = isTaggedInternalError(filter, input),
                                  !.exception = isTaggedException(filter, input),
                                  !.filter = filter]
    /\ UNCHANGED <<cuVars, respVars, input, rtVars, hVars>>

NextInput ==
    /\ op # "none"
    /\ input' \in Inputs
    /\ op' = "none"
    /\ result' = NoResult
    /\ UNCHANGED <<cuVars, respVars, rtVars, hVars>>

ConvNext ==
    \/ \E s \in OptStatuses : ApplyToException(s)
    \/ \E s \in OptStatuses : ApplyToInternalServerException(s)
    \/ ApplyToKnownExceptionOrUndefined
    \/ ApplyToInternalUnknownError
    \/ ReapplyToInternalUnknownError
    \/ ApplyMakeInternalUnknownErrorFromTaggedError
    \/ ApplyData
    \/ \E resource \in ResourceNames : ApplyToJSON(resource)
    \/ \E value \in ResourceNames : ApplyDecodeEncode(value)
    \/ \E updater \in Updaters : ApplyUpdate(updater)
    \/ \E cls \in NewClasses, dataOk \in BOOLEAN : ApplyNew(cls, dataOk)
    \/ \E log \in LogSets : ApplyLogErrorToTelemetry(log)
    \/ \E f \in Filters : Narrow(f)
    \/ NextInput

SpecConv == ConvInit /\ [][ConvNext]_vars

\* C2: for every input value, toException()(input) does not throw and
\* returns a value for which isTaggedException() is true.
C2_ToExceptionReturnsTaggedException ==
    op = "toException" =>
        /\ result.kind = "return"
        /\ isTaggedException(NoFilter, result.val)

\* C8: with no filter, an instance of a class made by TaggedInternalError is
\* accepted by isTaggedInternalError and rejected by isTaggedException, an
\* instance of a class made by TaggedException the other way round, and a
\* value without a kind marker (a plain object carrying a prefixed _tag
\* among them) is rejected by both.
C8_PredicatesFollowTheMarker ==
    (op = "narrow" /\ result.filter = NoFilter) =>
        /\ (input.jsType = "object" /\ input.marker = "internal")
               => (result.internal /\ ~result.exception)
        /\ (input.jsType = "object" /\ input.marker = "exception")
               => (result.exception /\ ~result.internal)
        /\ input.marker = "none" => (~result.internal /\ ~result.exception)

C8_LookalikeRejected ==
    /\ op = "narrow"
    /\ result.filter = NoFilter
    /\ input = Lookalike("exception")
    /\ ~result.internal
    /\ ~result.exception

\* the cause of the wrapping error is the original error itself
CauseIsOriginal(e, u) == e.causeCls = "none" /\ u.causeCls = e.cls
CauseRecoverable(e, u) == u.causeCls = (IF e.causeCls # "none" THEN e.causeCls ELSE e.cls)
CodeRecoverable(e, u) ==
    \/ u.code = e.code
    \/ u.carried.code = e.code
    \/ u.carried.exceptionCode = e.code
    \/ CauseIsOriginal(e, u)
DataRecoverable(e, u) ==
    \/ e.payload = "none"
    \/ u.carried.payload = e.payload
    \/ CauseIsOriginal(e, u)

\* C11: for a tagged internal error or exception e, after one and after two
\* applications of toInternalUnknownError the outermost UnknownError still
\* gives e's cause, code and data, its cause being e's cause or e itself.
C11_WrappingKeepsCauseCodeData ==
    (/\ op \in {"toInternalUnknownError", "toInternalUnknownError twice"}
     /\ input.marker # "none" /\ input.jsType = "object" /\ input.dataOk) =>
        /\ result.kind = "return"
        /\ CauseRecoverable(input, result.val)
        /\ CodeRecoverable(input, result.val)
        /\ DataRecoverable(input, result.val)

\* C12: data() gives none when the instance stores no data (or its class
\* has no schema), the decoded data when the stored data fits the schema,
\* and fails with a SchemaParseError internal error when it does not.
C12_DataFailsWithSchemaParseError ==
    op = "data" =>
        IF input.cls # "UnknownError" /\ input.payload = "none"
        THEN result.kind = "success" /\ result.val = OptionNone
        ELSE IF input.dataOk
        THEN result.kind = "success" /\ result.val.cls = "Some"
        ELSE /\ result.kind = "failure"
             /\ isTaggedInternalError(TagFilter("", "schema_parse"), result.val)

\* C13: the effect of logErrorToTelemetry never fails and never dies, for
\* any error value and any set of categories.
C13_LoggingNeverFails ==
    op = "logErrorToTelemetry" => result.kind = "success"

\* C14: one call of logErrorToTelemetry emits exactly one record, for any
\* error value and any set of categories.
C14_ExactlyOneRecord ==
    op = "logErrorToTelemetry" => result.emitted = 1

\* C15: constructing a tagged internal error or a tagged exception never
\* throws, whatever the arguments and whether or not the data fits the
\* declared schema.
C15_ConstructionNeverThrows ==
    op = "new" => result.kind = "return" /\ IsInstance(result.val)

\* C16: update(patcher) leaves the instance as it was when it stores no
\* data (or its class has no schema); otherwise the stored data becomes a
\* snapshot that reflects the patch, the snapshot stored before still shows
\* the old values through a reference held elsewhere, and nothing else on
\* the instance changes.
C16_UpdateIsCopyOnWrite ==
    op = "update" =>
        /\ result.before.payload = "none" => input = result.before
        /\ result.before.payload # "none" =>
               input.payload = Patched(result.before.payload, result.updater)
        /\ result.held = SnapshotOf(result.before)
        /\ [input EXCEPT !.payload = result.before.payload,
                         !.dataRef = result.before.dataRef] = result.before

\* an update changed the stored data while the old snapshot was held
C16_UpdatedWhileHeld ==
    /\ op = "update"
    /\ result.before.payload # "none"
    /\ input.payload # result.before.payload
    /\ input.dataRef # result.held.ref
    /\ result.held.content = result.before.payload

\* C17: whatever is done with an error instance (update, data, toJSON,
\* logging, conversion, wrapping), its kind and its tag stay what they were;
\* the kind is Internal or Exception and the tag carries the prefix of that
\* kind.  The same holds of every instance a conversion returns.
KindAndTagWellFormed(v) ==
    IsInstance(v) => v.marker \in {"internal", "exception"} /\ v.tag.ns = v.marker

C17_KindAndTagNeverChange ==
    [][/\ KindAndTagWellFormed(input') /\ KindAndTagWellFormed(result'.val)
       /\ (IsInstance(input) /\ op' # "none") =>
              input'.tag = input.tag /\ input'.marker = input.marker]_vars

\* an instance whose data was updated has then been converted
C17_UpdatedThenConverted ==
    /\ op = "toInternalUnknownError"
    /\ result.kind = "return"
    /\ IsInstance(input) /\ input.dataRef > 1
    /\ result.val.causeCls = input.cls

\* C10: toInternalServerException()(input) called without a status option
\* returns an exception tagged internal_server with code
\* E_INTERNAL_SERVER_ERROR and status 500, whatever the input.
C10_InternalServerExceptionIs500 ==
    (op = "toInternalServerException" /\ result.optStatus = 0) =>
        /\ result.kind = "return"
        /\ result.val.tag = MkTag("exception", "internal_server")
        /\ result.val.code = "E_INTERNAL_SERVER_ERROR"
        /\ result.val.status = INTERNAL_SERVER_ERROR

\* C26: constructing an InternalServerException, directly or through
\* toInternalServerException, terminates with an instance whatever the
\* value it is given: the constructor does not re-enter itself through
\* make() until the call stack is exhausted.
C26_ConstructorTerminates ==
    op \in {"new", "toInternalServerException"} =>
        ~(result.kind = "throw" /\ result.val = RangeError)

\* what the recognized-type matches give: the input itself when it is a
\* tagged exception, the dedicated exception of a recognized foreign error
C27_KnownFirst ==
    /\ isTaggedException(NoFilter, input) =>
           (result.kind = "return" /\ result.val = input)
    /\ (~isTaggedException(NoFilter, input) /\ input.cls = "E_ROUTE_NOT_FOUND") =>
           (result.kind = "return" /\ result.val.cls = "RouteNotFoundException")
    /\ (~isTaggedException(NoFilter, input) /\ input.cls = "E_VALIDATION_ERROR") =>
           (result.kind = "return" /\ result.val.cls = "ValidationException")

C27_Known(error) ==
    \/ isTaggedException(NoFilter, error)
    \/ error.cls \in {"E_ROUTE_NOT_FOUND", "E_VALIDATION_ERROR"}

\* C27: conversion matches in a fixed order: a tagged exception is returned
\* as the same object; otherwise a recognized foreign error gives its
\* dedicated exception, although it is an Error too; only otherwise an
\* Error or framework exception is wrapped as it is, and only after that
\* anything else is wrapped as an unknown error.
C27_ConversionPriority ==
    /\ op \in {"toKnownExceptionOrUndefined", "toException"} => C27_KnownFirst
    /\ (op = "toException" /\ ~C27_Known(input)) =>
           /\ result.kind = "return"
           /\ result.val.cls = "InternalServerException"
           /\ result.val.causeCls = IF input.isError \/ isTaggedInternalError(NoFilter, input)
                                     THEN input.cls ELSE "UnknownError"

\* C23: for every valid data value d of an error class with a data schema,
\* decode(encode(d)) equals d, and the data an instance serializes with
\* toJSON() decodes to what data() gave.
C23_DecodeEncodeRoundTrips ==
    /\ op = "decode(encode)" => result.val = result.before
    /\ op = "toJSON" => decode(result.held.content) = result.val.payload

\* what data() returns does round-trip, although toJSON() shows it in
\* another form than the one stored and the one decoded
C23_DecodedDataRoundTrips ==
    op = "toJSON" =>
        /\ decode(result.held.content) = result.val.payload
        /\ isLowercased(result.val.payload)

(***************************************************************************)
(* One unit of work run by runPromise(): the body runs inside the scope,   *)
(* the scope is closed, the stages of managed() follow, and the exit is    *)
(* handed to handleRuntimeExitResult().  The abort signal of runPromise's  *)
(* options interrupts the fiber.                                           *)
(***************************************************************************)
ConvIdle ==
    /\ input = Undefined
    /\ op = "none"
    /\ result = NoResult

Init ==
    /\ ConvIdle
    /\ RtIdle
    /\ HIdle
    /\ RespIdle
    /\ UnitsIdle

BodyValue == StringVal
BodyErrors == ErrorInputs
BodyDefects == {NativeError("TypeError"), StringVal, ResourceNotFoundException(TRUE)}
FiberAlive == pc \in {"body", "scope_close", "tap", "tap_logger", "catch_if", "catch_defect"}

TrxFinalizerEntry(t) == [kind |-> "trx", t |-> t]
ResourceFinalizerEntry == [kind |-> "resource", t |-> 0]

\* runPromise(options)(self): the fiber starts on the body
Start ==
    /\ pc = "idle"
    /\ pc' = "body"
    /\ UNCHANGED <<cuVars, respVars, cause, bodyExit, aborted, finalizers, ranFinalizers, trx, stages,
                   telemetry, logged, outcome, convVars, hVars>>

\* options.signal fires while the fiber is alive
Abort ==
    /\ FiberAlive
    /\ ~aborted
    /\ aborted' = TRUE
    /\ UNCHANGED <<cuVars, respVars, pc, cause, bodyExit, finalizers, ranFinalizers, trx, stages,
                   telemetry, logged, outcome, convVars, hVars>>

\* createDatabaseTransaction: db.transaction(options) is called
BeginTransaction(t) ==
    /\ pc = "body" /\ ~aborted
    /\ trx[t].db = "none"
    /\ trx' = [trx EXCEPT ![t].db = "pending"]
    /\ UNCHANGED <<cuVars, respVars, pc, cause, bodyExit, aborted, finalizers, ranFinalizers, stages,
                   telemetry, logged, outcome, convVars, hVars>>

\* the promise resolves in the running fiber: the finalizer is added and the
\* unit gets { trx, commit, rollback }
TransactionCreated(t) ==
    /\ pc = "body" /\ ~aborted
    /\ trx[t].db = "pending"
    /\ Len(finalizers) < MaxFinalizers
    /\ trx' = [trx EXCEPT ![t].db = "open", ![t].handle = TRUE]
    /\ finalizers' = Append(finalizers, TrxFinalizerEntry(t))
    /\ UNCHANGED <<cuVars, respVars, pc, cause, bodyExit, aborted, ranFinalizers, stages,
                   telemetry, logged, outcome, convVars, hVars>>

\* the promise rejects: the body fails with a DatabaseTransactionError
TransactionCreateFails(t) ==
    /\ pc = "body" /\ ~aborted
    /\ trx[t].db = "pending"
    /\ trx' = [trx EXCEPT ![t].db = "failed"]
    /\ cause' = Fail(DatabaseTransactionError)
    /\ bodyExit' = "failure"
    /\ pc' = AfterBody(cause')
    /\ UNCHANGED <<cuVars, respVars, aborted, finalizers, ranFinalizers, stages,
                   telemetry, logged, outcome, convVars, hVars>>

\* the fiber was interrupted while db.transaction() was in flight: the
\* database opens the transaction all the same and nobody holds it
TransactionOpensUnowned(t) ==
    /\ pc # "body"
    /\ trx[t].db = "pending"
    /\ trx' = [trx EXCEPT ![t].db = "open"]
    /\ UNCHANGED <<cuVars, respVars, pc, cause, bodyExit, aborted, finalizers, ranFinalizers, stages,
                   telemetry, logged, outcome, convVars, hVars>>

\* the body calls the returned commit()
BodyCommit(t) ==
    /\ pc = "body" /\ ~aborted
    /\ trx[t].handle
    /\ trx[t].bodyCommit + trx[t].bodyRollback < MaxManualCalls
    /\ trx' = [trx EXCEPT ![t].bodyCommit = @ + 1, ![t].db = DbCommit(trx[t])]
    /\ UNCHANGED <<cuVars, respVars, pc, cause, bodyExit, aborted, finalizers, ranFinalizers, stages,
                   telemetry, logged, outcome, convVars, hVars>>

\* the body calls the returned rollback()
BodyRollback(t) ==
    /\ pc = "body" /\ ~aborted
    /\ trx[t].handle
    /\ trx[t].bodyCommit + trx[t].bodyRollback < MaxManualCalls
    /\ trx' = [trx EXCEPT ![t].bodyRollback = @ + 1, ![t].db = DbRollback(trx[t])]
    /\ UNCHANGED <<cuVars, respVars, pc, cause, bodyExit, aborted, finalizers, ranFinalizers, stages,
                   telemetry, logged, outcome, convVars, hVars>>

\* the body acquires another scoped resource (Effect.addFinalizer)
AddFinalizer ==
    /\ pc = "body" /\ ~aborted
    /\ Len(finalizers) < MaxFinalizers
    /\ finalizers' = Append(finalizers, ResourceFinalizerEntry)
    /\ UNCHANGED <<cuVars, respVars, pc, cause, bodyExit, aborted, ranFinalizers, trx, stages,
                   telemetry, logged, outcome, convVars, hVars>>

BodyEnds(exit) ==
    /\ pc = "body" /\ ~aborted
    /\ \A t \in 1..MaxTrx : trx[t].db # "pending"
    /\ cause' = exit
    /\ bodyExit' = ExitKind(exit)
    /\ pc' = AfterBody(exit)
    /\ UNCHANGED <<cuVars, respVars, aborted, finalizers, ranFinalizers, trx, stages,
                   telemetry, logged, outcome, convVars, hVars>>

BodySucceeds == BodyEnds(Success(BodyValue))
BodyFails == \E e \in BodyErrors : BodyEnds(Fail(e))
BodyDies == \E d \in BodyDefects : BodyEnds(Die(d))

\* the interruption reaches the body
BodyInterrupted ==
    /\ pc = "body" /\ aborted
    /\ cause' = Interrupt
    /\ bodyExit' = "interrupt"
    /\ pc' = AfterBody(Interrupt)
    /\ UNCHANGED <<cuVars, respVars, aborted, finalizers, ranFinalizers, trx, stages,
                   telemetry, logged, outcome, convVars, hVars>>

\* Effect.scoped closes the scope: the finalizers run in reverse order of
\* registration, uninterruptibly, each with the exit of the body
RunFinalizer ==
    /\ pc = "scope_close"
    /\ finalizers # <<>>
    /\ LET f == finalizers[Len(finalizers)]
       IN /\ finalizers' = SubSeq(finalizers, 1, Len(finalizers) - 1)
          /\ ranFinalizers' = Append(ranFinalizers, f)
          /\ trx' = IF f.kind = "trx"
                    THEN [trx EXCEPT ![f.t] = TrxFinalizer(trx[f.t], cause)]
                    ELSE trx
    /\ UNCHANGED <<cuVars, respVars, pc, cause, bodyExit, aborted, stages,
                   telemetry, logged, outcome, convVars, hVars>>

\* the scope is closed; an interruption received meanwhile takes effect
ScopeClosed ==
    /\ pc = "scope_close"
    /\ finalizers = <<>>
    /\ cause' = IF aborted THEN Interrupted(cause) ELSE cause
    /\ stages' = Append(stages, "scoped")
    /\ pc' = "tap"
    /\ UNCHANGED <<cuVars, respVars, bodyExit, aborted, finalizers, ranFinalizers, trx,
                   telemetry, logged, outcome, convVars, hVars>>

\* tapErrorCause does not run: the exit is a success, or the fiber is
\* interrupted and failure continuations are passed over
TapSkipped ==
    /\ pc = "tap"
    /\ isSuccess(cause) \/ aborted
    /\ cause' = IF aborted THEN Interrupted(cause) ELSE cause
    /\ pc' = "catch_if"
    /\ UNCHANGED <<cuVars, respVars, bodyExit, aborted, finalizers, ranFinalizers, trx, stages,
                   telemetry, logged, outcome, convVars, hVars>>

\* first step of the tap: logErrorToTelemetry; when it fails, its failure
\* replaces the cause and the rest of the tap is not run
TapTelemetry ==
    /\ pc = "tap"
    /\ ~isSuccess(cause) /\ ~aborted
    /\ \E r \in {logErrorToTelemetry({"all"}, TapError(cause))} :
          /\ telemetry' = telemetry + r.emitted
          /\ cause' = IF isSuccess(r.exit) THEN cause ELSE r.exit
          /\ pc' = IF isSuccess(r.exit) THEN "tap_logger" ELSE "catch_if"
    /\ stages' = Append(stages, "tap_telemetry")
    /\ UNCHANGED <<cuVars, respVars, bodyExit, aborted, finalizers, ranFinalizers, trx,
                   logged, outcome, convVars, hVars>>

\* second step of the tap: the secondary logger
TapLogger ==
    /\ pc = "tap_logger"
    /\ IF aborted
       THEN /\ cause' = Interrupted(cause)
            /\ UNCHANGED <<cuVars, respVars, logged, stages>>
       ELSE \E r \in {TapLoggerStep(TapError(cause))} :
               /\ logged' = logged + r.written
               /\ cause' = IF isSuccess(r.exit) THEN cause ELSE r.exit
               /\ stages' = Append(stages, "tap_logger")
    /\ pc' = "catch_if"
    /\ UNCHANGED <<cuVars, respVars, bodyExit, aborted, finalizers, ranFinalizers, trx,
                   telemetry, outcome, convVars, hVars>>

\* Effect.catchIf
Normalize ==
    /\ pc = "catch_if"
    /\ IF aborted
       THEN /\ cause' = Interrupted(cause)
            /\ UNCHANGED stages
       ELSE IF isSuccess(cause)
       THEN UNCHANGED <<cuVars, respVars, cause, stages>>
       ELSE /\ cause' = CatchIf(cause)
            /\ stages' = Append(stages, "normalize")
    /\ pc' = "catch_defect"
    /\ UNCHANGED <<cuVars, respVars, bodyExit, aborted, finalizers, ranFinalizers, trx,
                   telemetry, logged, outcome, convVars, hVars>>

\* Effect.catchAllDefect; the fiber ends with the exit it leaves
CatchDefect ==
    /\ pc = "catch_defect"
    /\ IF aborted
       THEN /\ cause' = Interrupted(cause)
            /\ UNCHANGED stages
       ELSE IF isSuccess(cause)
       THEN UNCHANGED <<cuVars, respVars, cause, stages>>
       ELSE /\ cause' = CatchAllDefect(cause)
            /\ stages' = Append(stages, "catch_defect")
    /\ pc' = "exit"
    /\ UNCHANGED <<cuVars, respVars, bodyExit, aborted, finalizers, ranFinalizers, trx,
                   telemetry, logged, outcome, convVars, hVars>>

\* runPromise: return handleRuntimeExitResult()(result)
ExitHandling ==
    /\ pc = "exit"
    /\ outcome' = handleRuntimeExitResult(cause)
    /\ stages' = Append(stages, "exit")
    /\ pc' = "done"
    /\ UNCHANGED <<cuVars, respVars, cause, bodyExit, aborted, finalizers, ranFinalizers, trx,
                   telemetry, logged, convVars, hVars>>

Next ==
    \/ Start
    \/ Abort
    \/ \E t \in 1..MaxTrx : BeginTransaction(t)
    \/ \E t \in 1..MaxTrx : TransactionCreated(t)
    \/ \E t \in 1..MaxTrx : TransactionCreateFails(t)
    \/ \E t \in 1..MaxTrx : TransactionOpensUnowned(t)
    \/ \E t \in 1..MaxTrx : BodyCommit(t)
    \/ \E t \in 1..MaxTrx : BodyRollback(t)
    \/ AddFinalizer
    \/ BodySucceeds
    \/ BodyFails
    \/ BodyDies
    \/ BodyInterrupted
    \/ RunFinalizer
    \/ ScopeClosed
    \/ TapSkipped
    \/ TapTelemetry
    \/ TapLogger
    \/ Normalize
    \/ CatchDefect
    \/ ExitHandling

Spec == Init /\ [][Next]_vars

ScopeHasClosed == pc \in {"tap", "tap_logger", "catch_if", "catch_defect", "exit", "done"}
StageOrder == <<"scoped", "tap_telemetry", "tap_logger", "normalize", "catch_defect", "exit">>
StageIndex(name) == CHOOSE i \in 1..Len(StageOrder) : StageOrder[i] = name
InStages(name) == \E i \in 1..Len(stages) : stages[i] = name

\* C1: the entry point returns the success value or throws a tagged
\* exception; it never throws a raw Error, a string or an internal error.
C1_EntryPointThrowsOnlyExceptions ==
    pc = "done" =>
        \/ outcome.kind = "return"
        \/ outcome.kind = "throw" /\ isTaggedException(NoFilter, outcome.val)

\* C3: for a transaction created in the unit, counting the calls of the
\* body and of the scope alike: after a successful unit commit was invoked
\* exactly once and rollback never; after a failure, a defect or an
\* interruption rollback exactly once and commit never.
C3_CommitOrRollbackExactlyOnce ==
    \A t \in 1..MaxTrx :
        (pc = "done" /\ trx[t].handle) =>
            IF bodyExit = "success"
            THEN /\ trx[t].finCommit + trx[t].bodyCommit = 1
                 /\ trx[t].finRollback + trx[t].bodyRollback = 0
            ELSE /\ trx[t].finRollback + trx[t].bodyRollback = 1
                 /\ trx[t].finCommit + trx[t].bodyCommit = 0

\* C4: the stages run in the order scope close, tap (telemetry, then the
\* secondary logger), normalize, exit handling, and when the entry point
\* throws, both logging steps of the tap have run and completed.
C4_TapCompletesBeforeFailureIsThrown ==
    /\ \A i, j \in 1..Len(stages) :
           i < j => StageIndex(stages[i]) < StageIndex(stages[j])
    /\ (pc = "done" /\ outcome.kind = "throw") =>
           /\ InStages("tap_telemetry") /\ telemetry >= 1
           /\ InStages("tap_logger") /\ logged >= 1

C6_AbortThrowsKnownException ==
    (pc = "done" /\ aborted) =>
        /\ outcome.kind = "throw"
        /\ isTaggedException(NoFilter, outcome.val)

\* C24: the exit the entry point hands to handleRuntimeExitResult is a
\* success, a single failure or a single defect, so one of the three
\* expected cases is taken and the defensive last case is never reached.
C24_DefensiveCaseNeverReached ==
    pc \in {"exit", "done"} =>
        isSuccess(cause) \/ isFailType(cause) \/ isDieType(cause)

\* C25: once the unit has failed with a tagged exception E, and unless the
\* unit is aborted, no step up to the exit replaces E, and the entry point
\* throws E itself.
C25_TaggedExceptionThrownAsIs ==
    [][(isFailType(cause) /\ isTaggedException(NoFilter, cause.failure) /\ ~aborted') =>
          /\ cause' = cause
          /\ pc' = "done" => outcome' = Throw(cause.failure)]_vars

\* C7: once the scope has closed, no transaction the unit opened is still
\* open: each has been committed or rolled back.
C7_NoTransactionLeftOpen ==
    ScopeHasClosed => \A t \in 1..MaxTrx : trx[t].db # "open"

(***************************************************************************)
(* The response context service and the response maker.                    *)
(***************************************************************************)
\* defu(object, defaults): a key of `object` that is set wins
defu(object, defaults) ==
    [k \in MetadataKeys |-> IF object[k] # "none" THEN object[k] ELSE defaults[k]]
omit(object, keys) == [k \in MetadataKeys |-> IF k \in keys THEN "none" ELSE object[k]]
pick(object, keys) == [k \in MetadataKeys |-> IF k \in keys THEN object[k] ELSE "none"]

\* request.getRequestId(true): ctx.request.id(), or a fresh cuid
getRequestId(ctx) ==
    IF ctx.present /\ ctx.requestId # "none" THEN ctx.requestId ELSE "cuid"

\* context.getResponseMetadata() / context.getResponseDataMode()
getResponseMetadata(ctx) == IF ctx.present THEN ctx.metadata ELSE EmptyMetadata
getResponseDataMode(ctx) == IF ctx.present THEN ctx.dataMode ELSE "unset"

\* annotateResponseMetadata(metadata) / setResponseMetadata(metadata) /
\* setResponseDataMode(dataMode): the context afterwards
annotateResponseMetadata(ctx, metadata) ==
    IF ~ctx.present THEN ctx
    ELSE [ctx EXCEPT !.metadata = defu(omit(metadata, DefaultKeys), ctx.metadata)]
setResponseMetadata(ctx, metadata) ==
    IF ~ctx.present THEN ctx
    ELSE [ctx EXCEPT !.metadata = defu(pick(ctx.metadata, DefaultKeys), metadata)]
setResponseDataMode(ctx, dataMode) ==
    IF ~ctx.present THEN ctx ELSE [ctx EXCEPT !.dataMode = dataMode]

\* the shapes of a value to respond with, and the data modes
DataShapes == {"undefined", "array", "object", "string"}
DataModes == {"NONE", "LIST", "SINGLE", "RAW", "PAGINATED"}

inferResponseDataModeFromData(value) ==
    IF value = "undefined" THEN "NONE"
    ELSE IF value = "array" THEN "LIST"
    ELSE "RAW"

\* a validation that accepts every value
dataFitsAnyMode(value, dataMode) == TRUE

\* validateResponseDataForResponseDataMode()({ data, dataMode }) passes
dataFitsDataMode(value, dataMode) ==
    IF dataMode = "SINGLE" THEN value \in {"object", "array"}
    ELSE IF dataMode = "NONE" THEN value = "undefined"
    ELSE IF dataMode \in {"LIST", "PAGINATED"} THEN value = "array"
    ELSE TRUE

\* validateResponseMetadataForResponseDataMode()({ metadata, dataMode }) passes
metadataFitsDataMode(metadata, dataMode) ==
    dataMode = "PAGINATED" => metadata.pagination = "object"

\* the options resolved against the response context
resolvedDataMode(ctx, options, value) ==
    IF options.dataMode # "unset" THEN options.dataMode
    ELSE IF getResponseDataMode(ctx) # "unset" THEN getResponseDataMode(ctx)
    ELSE inferResponseDataModeFromData(value)
resolvedMetadata(ctx, options) == defu(options.metadata, getResponseMetadata(ctx))

\* the metadata of an envelope: the stamps first, then the resolved metadata
stampedMetadata(requestId, dataMode, metadata) ==
    defu([EmptyMetadata EXCEPT !.request_id = requestId, !.timestamp = "iso",
                               !.data_mode = dataMode], metadata)

\* makeSuccessResponse(options)(data)
makeSuccessResponse(ctx, options, value) ==
    IF \/ ~metadataFitsDataMode(resolvedMetadata(ctx, options),
                                resolvedDataMode(ctx, options, value))
       \/ ~dataFitsDataMode(value, resolvedDataMode(ctx, options, value))
    THEN Fail(SchemaParseError(TRUE))
    ELSE Success([type |-> "success", status |-> OK,
                  metadata |-> stampedMetadata(getRequestId(ctx),
                                               resolvedDataMode(ctx, options, value),
                                               resolvedMetadata(ctx, options))])

\* the metadata makeExceptionResponse(options)(exception) gives its envelope
exceptionMetadata(ctx, options) ==
    stampedMetadata(getRequestId(ctx), "none", resolvedMetadata(ctx, options))

\* the metadata of the hard-coded response of handle()
fatalMetadata(ctx) ==
    [EmptyMetadata EXCEPT !.request_id = ctx.requestId, !.timestamp = "iso"]

WithMetadata(env, metadata) ==
    [type |-> env.type, status |-> env.status, metadata |-> metadata]

\* the envelopes of an exception, without their metadata
ExceptionEnvelope(exception) ==
    [type |-> "exception", status |-> exception.status, exception |-> exception.code,
     message |-> "exception"]

FatalEnvelope ==
    [type |-> "exception", status |-> INTERNAL_SERVER_ERROR,
     exception |-> "E_INTERNAL_SERVER_ERROR", message |-> "FATAL ERROR"]

\* makeResponseService.makeExceptionResponse()(exception): the exception's
\* data is decoded, then the response is decoded against ExceptionResponse
makeExceptionResponse(exception, decodes) ==
    IF ~exception.dataOk THEN Fail(ParseError)
    ELSE IF ~decodes THEN Fail(SchemaParseError(TRUE))
    ELSE Success(ExceptionEnvelope(exception))

(***************************************************************************)
(* Specification of the response operations of one request.                *)
(***************************************************************************)
SuppliedMetadata == {EmptyMetadata, Meta("cache", "a"), Meta("cache", "b"),
                     Meta("request_id", "a"), Meta("request_id", "b")}
\* the metadata a caller passes in the options of a response, and the data
\* modes a controller sets on the response context
CallerMetadata == {EmptyMetadata, Meta("cache", "a"), Meta("pagination", "object")}
ContextDataModes == {"LIST", "PAGINATED"}
Options == [dataMode : {"unset"} \cup DataModes, metadata : CallerMetadata]

ResponseInit ==
    /\ ConvIdle
    /\ RtIdle
    /\ HIdle
    /\ rctx \in {NoContext} \cup {NewContext(id) : id \in RequestIds}
    /\ envelope = NoEnvelope
    /\ rop = NoRop
    /\ UnitsIdle

AnnotateResponseMetadata(metadata) ==
    /\ rctx' = annotateResponseMetadata(rctx, metadata)
    /\ rop' = [NoRop EXCEPT !.name = "annotateResponseMetadata", !.supplied = metadata,
                            !.before = rctx.metadata]
    /\ UNCHANGED <<cuVars, envelope, convVars, rtVars, hVars>>

SetResponseMetadata(metadata) ==
    /\ rctx' = setResponseMetadata(rctx, metadata)
    /\ rop' = [NoRop EXCEPT !.name = "setResponseMetadata", !.supplied = metadata,
                            !.before = rctx.metadata]
    /\ UNCHANGED <<cuVars, envelope, convVars, rtVars, hVars>>

SetResponseDataMode(dataMode) ==
    /\ rctx' = setResponseDataMode(rctx, dataMode)
    /\ rop' = [NoRop EXCEPT !.name = "setResponseDataMode"]
    /\ UNCHANGED <<cuVars, envelope, convVars, rtVars, hVars>>

\* what the effect of a response maker left: the envelope of a success
Made_envelope(exit) == IF isSuccess(exit) THEN exit.value ELSE NoEnvelope

MakeSuccessResponse(options, value) ==
    /\ \E exit \in {makeSuccessResponse(rctx, options, value)} :
         /\ envelope' = Made_envelope(exit)
         /\ rop' = [NoRop EXCEPT !.name = "makeSuccessResponse", !.data = value,
                                 !.options = options, !.exit = ExitKind(exit),
                                 !.failure = IF isFailType(exit) THEN exit.failure.cls
                                             ELSE "none"]
    /\ UNCHANGED <<cuVars, rctx, convVars, rtVars, hVars>>

MakeExceptionResponse(options, exception) ==
    /\ \E exit \in {makeExceptionResponse(exception, TRUE)} :
         /\ envelope' = IF isSuccess(exit)
                        THEN WithMetadata(exit.value, exceptionMetadata(rctx, options))
                        ELSE NoEnvelope
         /\ rop' = [NoRop EXCEPT !.name = "makeExceptionResponse", !.options = options,
                                 !.exit = ExitKind(exit)]
    /\ UNCHANGED <<cuVars, rctx, convVars, rtVars, hVars>>

\* What a controller left as the content of the response: a value of some
\* shape, which may itself be an envelope (env).
Contents ==
    {[shape |-> v, env |-> NoEnvelope] : v \in DataShapes}
        \cup {[shape |-> "object", env |-> e] :
                 e \in {[type |-> "exception", status |-> NOT_FOUND,
                         metadata |-> stampedMetadata("cuid", "none", EmptyMetadata)],
                        [type |-> "success", status |-> CREATED,
                         metadata |-> stampedMetadata("cuid", "SINGLE", EmptyMetadata)]}}

\* the status and body RuntimeMiddleware.handle leaves on the response
\* after its program has run: `made` is the exit of makeSuccessResponse
Processed(content, accepts, made) ==
    IF content.env.type = "exception"
    THEN [exit |-> "success", httpStatus |-> content.env.status, body |-> content.env]
    ELSE IF accepts = "json"
    THEN IF isSuccess(made)
         THEN [exit |-> "success", httpStatus |-> made.value.status, body |-> made.value]
         ELSE [exit |-> ExitKind(made), httpStatus |-> 0, body |-> NoEnvelope]
    ELSE [exit |-> "success", httpStatus |-> OK, body |-> content.env]

RuntimeMiddlewareHandle(content, accepts) ==
    /\ rctx.present
    /\ \E r \in {Processed(content, accepts,
                            makeSuccessResponse(rctx, NoOptions, content.shape))} :
         /\ envelope' = r.body
         /\ rop' = [NoRop EXCEPT !.name = "RuntimeMiddleware.handle", !.data = content.shape,
                                 !.exit = r.exit, !.httpStatus = r.httpStatus]
    /\ UNCHANGED <<cuVars, rctx, convVars, rtVars, hVars>>

ResponseNext ==
    \/ \E content \in Contents, accepts \in {"json", "none"} :
           RuntimeMiddlewareHandle(content, accepts)
    \/ \E metadata \in SuppliedMetadata : AnnotateResponseMetadata(metadata)
    \/ \E metadata \in SuppliedMetadata : SetResponseMetadata(metadata)
    \/ \E dataMode \in ContextDataModes : SetResponseDataMode(dataMode)
    \/ \E options \in Options, value \in DataShapes : MakeSuccessResponse(options, value)
    \/ \E metadata \in CallerMetadata, dataOk \in BOOLEAN :
           MakeExceptionResponse([NoOptions EXCEPT !.metadata = metadata],
                                 ResourceNotFoundException(dataOk))

SpecResponse == ResponseInit /\ [][ResponseNext]_vars

\* C21: when the runtime middleware has written a response whose body is
\* an envelope, the status set on the response is the envelope's status.
C21_StatusMirrorsEnvelope ==
    (rop.name = "RuntimeMiddleware.handle" /\ rop.exit = "success" /\ envelope.type # "none") =>
        rop.httpStatus = envelope.status

\* C29: a success envelope returned by makeSuccessResponse has data that
\* fits its data_mode (single: an object, none: no data, list or paginated:
\* an array, paginated with a pagination object in the metadata); for a
\* combination that does not fit, makeSuccessResponse fails with a
\* SchemaParseError and gives no envelope.
ShapeFitsDataMode(value, dataMode, metadata) ==
    /\ dataMode = "SINGLE" => value \in {"object", "array"}
    /\ dataMode = "NONE" => value = "undefined"
    /\ dataMode \in {"LIST", "PAGINATED"} => value = "array"
    /\ dataMode = "PAGINATED" => metadata.pagination = "object"

ExpectedDataMode(value) ==
    IF value = "undefined" THEN "NONE"
    ELSE IF value = "array" THEN "LIST"
    ELSE IF value = "object" THEN "SINGLE"
    ELSE "RAW"

C18_DataModeInferredFromShape ==
    (rop.name = "makeSuccessResponse" /\ rop.exit = "success") =>
        /\ rop.options.dataMode # "unset" =>
               envelope.metadata.data_mode = rop.options.dataMode
        /\ (rop.options.dataMode = "unset" /\ getResponseDataMode(rctx) = "unset") =>
               envelope.metadata.data_mode = ExpectedDataMode(rop.data)

\* C19: in a response, a key of the caller's metadata wins over the same
\* key of the response context; setResponseMetadata makes the metadata
\* supplied win over what the context holds, annotateResponseMetadata
\* keeps what the context holds.
C19_MetadataPrecedence ==
    /\ (rop.name \in {"makeSuccessResponse", "makeExceptionResponse"} /\ rop.exit = "success") =>
           (rop.options.metadata.cache # "none" =>
               envelope.metadata.cache = rop.options.metadata.cache)
    /\ (rop.name = "setResponseMetadata" /\ rctx.present) =>
           \A k \in MetadataKeys :
               rop.supplied[k] # "none" => rctx.metadata[k] = rop.supplied[k]
    /\ (rop.name = "annotateResponseMetadata" /\ rctx.present) =>
           \A k \in MetadataKeys :
               rop.before[k] # "none" => rctx.metadata[k] = rop.before[k]

(***************************************************************************)
(* HttpExceptionHandler.handle(error, ctx): the error is converted and the *)
(* envelope built and encoded inside runPromise({ ctx }), with no abort    *)
(* signal; whatever runPromise throws is caught and replaced by the        *)
(* hard-coded envelope; the response is then written once.                 *)
(***************************************************************************)
\* Schema.encode(ExceptionResponse)(exceptionResponse).pipe(toSchemaParseError(...))
EncodeExceptionResponse(built, encodes) ==
    IF ~isSuccess(built) THEN built
    ELSE IF ~encodes THEN Fail(SchemaParseError(TRUE))
    ELSE built

\* the generator run by handle(): a throw of toException() is a defect
HandlerBody(converted, decodes, encodes) ==
    IF converted.kind = "throw" THEN Die(converted.val)
    ELSE EncodeExceptionResponse(makeExceptionResponse(converted.val, decodes), encodes)

\* tapErrorCause of managed() on a fiber that is not interrupted
TapSteps(c, telemetryExit, loggerExit) ==
    IF ~isSuccess(telemetryExit) THEN telemetryExit
    ELSE IF ~isSuccess(loggerExit) THEN loggerExit
    ELSE c

TapErrorCause(c) ==
    IF isSuccess(c) THEN c
    ELSE TapSteps(c, logErrorToTelemetry({"all"}, TapError(c)).exit, TapLoggerStep(TapError(c)).exit)

\* managed(self) on a fiber that is not interrupted, from the exit of self
managed(c) == CatchAllDefect(CatchIf(TapErrorCause(c)))

\* runPromise({ ctx })(self): what the awaited call returns or throws
runPromise(c) == handleRuntimeExitResult(managed(c))

\* handle() with a catch block that lets the error go on
handle_catchRethrows(thrown) == Throw(thrown)

\* the catch block of handle(): logger.fatal, then the hard-coded response
handle_catch(thrown) == Return(FatalEnvelope)

HandlerInit == Init

\* the framework calls handle(error, ctx)
HandleCall ==
    /\ hpc = "idle"
    /\ handled < MaxHandled
    /\ herror' \in ErrorInputs
    /\ hrun' = NoOutcome
    /\ hpc' = "running"
    /\ rctx' \in {NewContext(id) : id \in RequestIds}
    /\ UNCHANGED <<cuVars, envelope, rop, bodies, handled, convVars, rtVars>>

\* response = await Effect.gen(...).pipe(..., runPromise({ ctx }))
HandleRun ==
    /\ hpc = "running"
    /\ \E decodes, encodes \in BOOLEAN :
         \E converted \in {toException(0, herror)} :
           \E body \in {HandlerBody(converted, decodes, encodes)} :
             hrun' = runPromise(body)
    /\ hpc' = "ran"
    /\ UNCHANGED <<cuVars, respVars, herror, bodies, handled, convVars, rtVars>>

\* the catch block when runPromise threw, then
\* return ctx.response.status(response.status).json(response)
HandleRespond ==
    /\ hpc = "ran"
    /\ \E response \in {IF hrun.kind = "return" THEN hrun ELSE handle_catch(hrun.val)} :
         IF response.kind = "return"
         THEN /\ bodies' = Append(bodies, [status |-> response.val.status, json |-> response.val])
              /\ envelope' = WithMetadata(response.val,
                                          IF hrun.kind = "return"
                                          THEN exceptionMetadata(rctx, NoOptions)
                                          ELSE fatalMetadata(rctx))
              /\ hpc' = "idle"
         ELSE /\ bodies' = bodies
              /\ envelope' = envelope
              /\ hpc' = "thrown"
    /\ handled' = handled + 1
    /\ UNCHANGED <<cuVars, rctx, rop, herror, hrun, convVars, rtVars>>

HandlerNext ==
    \/ HandleCall
    \/ HandleRun
    \/ HandleRespond

SpecHandler == HandlerInit /\ [][HandlerNext]_vars

\* C20: every envelope carries a request id that is a string and an ISO
\* timestamp in its metadata, the hard-coded envelope of handle() included.
C20_EnvelopeHasRequestIdAndTimestamp ==
    envelope.type # "none" =>
        /\ envelope.metadata.request_id # "none"
        /\ envelope.metadata.timestamp = "iso"

\* C9: handle() never throws, and each call writes exactly one JSON body,
\* an exception envelope sent with the envelope's own status: the envelope
\* built from the converted exception, or the hard-coded one (type
\* exception, status 500, E_INTERNAL_SERVER_ERROR, the FATAL ERROR message).
C9_HandleWritesOneEnvelope ==
    /\ hpc # "thrown"
    /\ Len(bodies) = handled
    /\ \A i \in 1..Len(bodies) :
           /\ bodies[i].json.type = "exception"
           /\ bodies[i].status = bodies[i].json.status
           /\ \/ bodies[i].json = FatalEnvelope
              \/ bodies[i].json.message = "exception"

C9_FallbackWritten ==
    /\ hpc = "idle"
    /\ handled = 1
    /\ herror = NativeError("TypeError")
    /\ hrun.kind = "throw"
    /\ bodies = <<[status |-> INTERNAL_SERVER_ERROR, json |-> FatalEnvelope]>>

(***************************************************************************)
(* Several units of work run through runPromise() at the same time.  Each  *)
(* call wraps its effect in CurrentHttpContext.provide(ctx); the response  *)
(* context service looks the context up when one of its functions is       *)
(* called, and keeps what it writes on ctx.response of that context.       *)
(***************************************************************************)
\* a service that resolved the context once, when the runtime built it
CapturedHttpContext(u) == provided[builtBy]

\* `yield* CurrentHttpContext` inside unit u: what runPromise provided to u
CurrentHttpContext(u) == provided[u]

\* runPromise({ ctx })(self) is called for unit u, with or without a context
UnitStart(u, withContext) ==
    /\ upc[u] = "idle"
    /\ upc' = [upc EXCEPT ![u] = "running"]
    /\ provided' = [provided EXCEPT ![u] = IF withContext THEN u ELSE 0]
    /\ builtBy' = IF builtBy = 0 THEN u ELSE builtBy
    /\ UNCHANGED <<responses, seen, convVars, rtVars, hVars, respVars>>

\* setResponseMessage / setResponseDataMode inside unit u
UnitWrite(u, field) ==
    /\ upc[u] = "running"
    /\ \E ctx \in {CurrentHttpContext(u)} :
         responses' = IF ctx = 0 THEN responses
                      ELSE [responses EXCEPT ![ctx][field] = u]
    /\ UNCHANGED <<upc, provided, seen, builtBy, convVars, rtVars, hVars, respVars>>

\* getResponseMessage / getResponseDataMode inside unit u
UnitRead(u) ==
    /\ upc[u] = "running"
    /\ \E ctx \in {CurrentHttpContext(u)} :
         seen' = [seen EXCEPT ![u] = IF ctx = 0 THEN UnsetResponseContext
                                     ELSE responses[ctx]]
    /\ UNCHANGED <<upc, provided, responses, builtBy, convVars, rtVars, hVars, respVars>>

UnitEnd(u) ==
    /\ upc[u] = "running"
    /\ upc' = [upc EXCEPT ![u] = "done"]
    /\ UNCHANGED <<provided, responses, seen, builtBy, convVars, rtVars, hVars, respVars>>

UnitsNext ==
    \/ \E u \in Units, withContext \in BOOLEAN : UnitStart(u, withContext)
    \/ \E u \in Units, field \in ResponseFields : UnitWrite(u, field)
    \/ \E u \in Units : UnitRead(u)
    \/ \E u \in Units : UnitEnd(u)

SpecUnits == Init /\ [][UnitsNext]_vars

ObjectKinds == {"tagged", "error", "other"}
Chains ==
    UNION {[kinds : [1..n -> ObjectKinds], back : 0..n] : n \in 1..MaxChain}
ChainLen(chain) == Cardinality(DOMAIN chain.kinds)

\* chain.kinds[i] has this cause (0: undefined)
causeAt(chain, i) == IF i < ChainLen(chain) THEN i + 1 ELSE chain.back

\* is.error(value)
isErrorAt(chain, i) == i # 0 /\ chain.kinds[i] \in {"tagged", "error"}

\* the cause of the cause, and so on to the end of the chain
RECURSIVE rootCauseFrom(_, _, _)
rootCauseFrom(chain, i, hops) ==
    IF hops = 0 \/ causeAt(chain, i) = 0 THEN i
    ELSE rootCauseFrom(chain, causeAt(chain, i), hops - 1)
rootCauseAt(chain, i) == rootCauseFrom(chain, i, MaxChain)

\* causeOfUnknownError()(object i of the chain): the position of what it
\* returns, 0 for undefined
causeOfUnknownErrorAt(chain, i) ==
    IF chain.kinds[i] = "tagged"
    THEN IF causeAt(chain, i) # 0 THEN causeAt(chain, i) ELSE i
    ELSE IF chain.kinds[i] = "error"
    THEN IF isErrorAt(chain, causeAt(chain, i)) THEN causeAt(chain, i) ELSE i
    ELSE 0

CauseInit ==
    /\ input \in Chains
    /\ op = "none"
    /\ result = NoResult
    /\ RtIdle
    /\ HIdle
    /\ RespIdle
    /\ UnitsIdle

ApplyCauseOfUnknownError ==
    /\ op = "none"
    /\ op' = "causeOfUnknownError"
    /\ result' = [NoResult EXCEPT !.kind = "return", !.val = causeOfUnknownErrorAt(input, 1)]
    /\ UNCHANGED <<cuVars, respVars, input, rtVars, hVars>>

CauseNext == ApplyCauseOfUnknownError

SpecCause == CauseInit /\ [][CauseNext]_vars

PayloadKinds == {"data", "request"}
NewPayload(kind) == [kind |-> kind, data |-> OptionNone, latest |-> "never"]
SourceValues == {"a", "b", "c", "null"}
Sources == [accepted : BOOLEAN, decodes : BOOLEAN, value : SourceValues]

PayloadNotValidatedError ==
    TaggedInternalErrorInstance("PayloadNotValidatedError", "payload_not_validated",
                                "I_PAYLOAD_NOT_VALIDATED_ERROR", TRUE, "none", 1)

\* Schema.decode(schema)(sourceData), when it decodes
decodePayload(value) ==
    CASE value = "a" -> "A"
      [] value = "b" -> "B"
      [] value = "c" -> "C"
      [] OTHER -> "null"

\* Option.fromNullable(data)
fromNullable(value) == IF value = "null" THEN OptionNone ELSE OptionSome(value)

\* a process() that stores what it was given before it is decoded
processStoringTheSource(self, source) ==
    [self |-> [self EXCEPT !.data = fromNullable(source.value)],
     exit |-> IF source.decodes THEN Success(Undefined) ELSE Fail(SchemaParseError(TRUE))]

\* self.process()(source): the validator of a request payload, then the
\* schema; the decoded data is stored only when both have succeeded
process(self, source) ==
    IF self.kind = "request" /\ ~source.accepted
    THEN [self |-> self, exit |-> Fail(ValidationException_fromException(ValidationError(TRUE)))]
    ELSE IF ~source.decodes
    THEN [self |-> self, exit |-> Fail(SchemaParseError(TRUE))]
    ELSE [self |-> [self EXCEPT !.data = fromNullable(decodePayload(source.value))],
          exit |-> Success(Undefined)]

\* self.payload()
payload(self) ==
    IF self.data = OptionNone THEN Fail(PayloadNotValidatedError)
    ELSE Success(self.data.payload)

PayloadInit ==
    /\ input \in {NewPayload(kind) : kind \in PayloadKinds}
    /\ op = "none"
    /\ result = NoResult
    /\ RtIdle
    /\ HIdle
    /\ RespIdle
    /\ UnitsIdle

\* Effect.runPromiseExit(input.process()(source))
ApplyProcess(source) ==
    /\ op' = "process"
    /\ \E r \in {process(input, source)} :
         /\ input' = [r.self EXCEPT !.latest = IF isSuccess(r.exit)
                                               THEN decodePayload(source.value)
                                               ELSE input.latest]
         /\ result' = [ExitResult(r.exit) EXCEPT !.before = input, !.held = source]
    /\ UNCHANGED <<cuVars, respVars, rtVars, hVars>>

\* Effect.runPromiseExit(input.payload())
ApplyPayload ==
    /\ op' = "payload"
    /\ result' = [ExitResult(payload(input)) EXCEPT !.before = input]
    /\ UNCHANGED <<cuVars, respVars, input, rtVars, hVars>>

PayloadNext ==
    \/ \E source \in Sources : ApplyProcess(source)
    \/ ApplyPayload

SpecPayload == PayloadInit /\ [][PayloadNext]_vars

\* a process() that has failed has left the stored data as it was
C30_FailedProcessStoresNothing ==
    (op = "process" /\ result.kind = "failure") => input.data = result.before.data

====
